---- MODULE Spec2Model ----
(***************************************************************************)
(* Call session orchestration of the phone bot: CallHandlerService         *)
(* (src/src/services/tts.service.js, second half), GPTService              *)
(* (src/src/services/gpt.service.js), the Reservation and Call models and  *)
(* the webhook / manual reservation routes.                                *)
(*                                                                         *)
(* The program is single-threaded JavaScript: a handler runs atomically    *)
(* from one completed I/O operation to the next awaited one.  Every action *)
(* below is one such run: the arrival of a webhook request, or the         *)
(* completion of the collaborator call a handler is waiting on, followed   *)
(* by all the synchronous code (and promise continuations that need no     *)
(* I/O) up to the next collaborator call.                                  *)
(***************************************************************************)
EXTENDS Integers, Sequences, FiniteSets, TLC

VARIABLES activeCalls, callState, calls, reservations, events, faqCache,
          handlers, faults, up, ledgerDocs, ttsCache

vars == <<activeCalls, callState, calls, reservations, events, faqCache,
          handlers, faults, up, ledgerDocs, ttsCache>>

(***************************************************************************)
(* Bounds of the model                                                     *)
(***************************************************************************)
\* number of requests (webhook or manual route) handled in one behaviour
MaxHandlers == 3
\* number of collaborator calls that fail in one behaviour
MaxFaults == 2
\* turnCount of the session the long-conversation specification starts from
StartTurns == 19

Sids == {"CA1", "CA2"}
BusinessId == "b1"
Handlers == 1..MaxHandlers

(***************************************************************************)
(* Caller utterances.  An utterance is modelled by the set of intent       *)
(* patterns (gpt.service.js initializeIntentPatterns) that occur in it as  *)
(* substrings, and by whether the farewell expression of shouldEndCall     *)
(* matches it.                                                             *)
(*   "shulchan"   a request for a table          (pattern 'shulchan')      *)
(*   "bye"        bye                            (pattern 'bye')           *)
(*   "todaZehu"   thanks, that is all            (patterns 'zehu' and      *)
(*                                                'toda zehu')             *)
(*   "mataiPatuach" when are you open            (pattern 'matai patuach') *)
(*   "mataiPatuachQ" the same with a question mark at its end              *)
(*   "shalom"     hello                          (no pattern)              *)
(* and, for the classification on its own,                                 *)
(*   "efsharLehazmin"  may I book        (patterns 'lehazmin', 'efshar' and *)
(*                                        the expression efshar            *)
(*                                        (lehazmin|likboa))               *)
(*   "levatelHazmana"  cancel a booking  (patterns 'levatel', 'hazmana')   *)
(*   "yeshTafrit"      is there a menu   (patterns 'yesh', 'tafrit')       *)
(*   "yeshBaaya"       there is a problem (patterns 'yesh', 'baaya')       *)
(*   "lo"              no                (pattern 'lo')                    *)
(***************************************************************************)
Utterances == {"shulchan", "bye", "todaZehu", "mataiPatuach", "mataiPatuachQ",
               "shalom"}

PatternsIn(u) ==
    CASE u = "shulchan"     -> {"shulchan"}
      [] u = "bye"          -> {"bye"}
      [] u = "todaZehu"     -> {"zehu", "toda zehu"}
      [] u = "mataiPatuach" -> {"matai patuach"}
      [] u = "mataiPatuachQ" -> {"matai patuach"}
      [] u = "efsharLehazmin" -> {"lehazmin", "efshar (lehazmin|likboa)",
                                  "efshar"}
      [] u = "levatelHazmana" -> {"levatel", "hazmana"}
      [] u = "yeshTafrit"   -> {"yesh", "tafrit"}
      [] u = "yeshBaaya"    -> {"yesh", "baaya"}
      [] u = "lo"           -> {"lo"}
      [] OTHER              -> {}

\* the ordered categories of initializeIntentPatterns with the patterns of
\* each category that occur in the modelled utterances
intentPatterns ==
    << [intent |-> "reservation",
        patterns |-> {"hazmana", "lehazmin", "shulchan",
                      "efshar (lehazmin|likboa)"}],
       [intent |-> "hours",       patterns |-> {"matai patuach"}],
       [intent |-> "menu",        patterns |-> {"tafrit"}],
       [intent |-> "location",    patterns |-> {}],
       [intent |-> "cancel",      patterns |-> {"levatel"}],
       [intent |-> "confirm",     patterns |-> {"zehu"}],
       [intent |-> "deny",        patterns |-> {"lo", "bye", "toda zehu"}],
       [intent |-> "complaint",   patterns |-> {"baaya"}],
       [intent |-> "faq",         patterns |-> {"yesh", "efshar"}] >>

\* the category declared last that has a matching pattern
RECURSIVE detectBack(_, _)
detectBack(u, i) ==
    IF i = 0 THEN "general"
    ELSE IF intentPatterns[i].patterns \cap PatternsIn(u) # {}
         THEN intentPatterns[i].intent
         ELSE detectBack(u, i - 1)

detectIntent_LastMatch(u) == detectBack(u, Len(intentPatterns))

RECURSIVE detectFrom(_, _)
detectFrom(u, i) ==
    IF i > Len(intentPatterns) THEN "general"
    ELSE IF intentPatterns[i].patterns \cap PatternsIn(u) # {}
         THEN intentPatterns[i].intent
         ELSE detectFrom(u, i + 1)

detectIntent(u) == detectFrom(u, 1)

\* params.Confidence of a SpeechResult, in hundredths (parseFloat('0.30'),
\* parseFloat('0.90')), and the SpeechResult events the carrier sends: every
\* utterance recognized with high confidence, one with low confidence
Confidences == {30, 90}
SpeechInputs ==
    {[text |-> u, confidence |-> 90] : u \in Utterances}
        \cup {[text |-> "shalom", confidence |-> 30]}

\* the farewell expression of shouldEndCall: lehitraot | bye | toda zehu | siyamti
FarewellMatches(u) == u \in {"bye", "todaZehu"}

(***************************************************************************)
(* Reservation draft (callState.reservationData) and extracted data.       *)
(* A field is Absent (key missing), JNull (JSON null) or a value.          *)
(***************************************************************************)
\* a field's payload is a small integer: date 1, time 1, customer name 1, or
\* the party size itself
Absent == [k |-> "absent", v |-> 0]
JNull == [k |-> "null", v |-> 0]
Val(n) == [k |-> "val", v |-> n]
\* the string of the decimal digits of n, as a form or a JSON body that
\* quotes its numbers delivers it
Str(n) == [k |-> "str", v |-> n]
DraftFields == {"date", "time", "partySize", "customerName", "customerPhone"}

EmptyDraft == [f \in DraftFields |-> Absent]

\* JavaScript truthiness of a draft field
Truthy(x) == x.k \in {"val", "str"}

XFull(p) == [date |-> Val(1), time |-> Val(1), partySize |-> Val(p),
             customerName |-> Val(1), customerPhone |-> Absent]
XDateTime == [date |-> Val(1), time |-> Val(1), partySize |-> Absent,
              customerName |-> Absent, customerPhone |-> Absent]
\* the object the extraction prompt's template asks for when only the date
\* was mentioned: the other fields are present with the value null
XDateOnly == [date |-> Val(1), time |-> JNull, partySize |-> JNull,
              customerName |-> JNull, customerPhone |-> JNull]

\* party sizes callers and the dashboard ask for
PartySizes == {20, 30}

\* what extractStructuredData can return for a reservation turn: null (the
\* model call or JSON.parse failed) or an object with some of the fields
NoData == [f \in DraftFields |-> [k |-> "nodata", v |-> 0]]
Extractions == {NoData, XDateTime, XDateOnly} \cup {XFull(p) : p \in PartySizes}

\* { ...reservationData, ...extractedData }
MergeDraft(draft, data) ==
    [f \in DraftFields |-> IF data[f] # Absent THEN data[f] ELSE draft[f]]

(***************************************************************************)
(* The state of one call (the value stored in activeCalls) and the pure    *)
(* helpers of CallHandlerService.                                          *)
(***************************************************************************)
\* callId "none": handleIncomingCall has not created the state yet
NoState == [callId |-> "none", conversation |-> << >>, currentIntent |-> "null",
            reservationData |-> EmptyDraft, turnCount |-> 0, timeoutCount |-> 0]

\* the object handleIncomingCall stores; timeoutCount is undefined in the
\* code and read as (timeoutCount || 0)
\* the greeting is recorded as the first agent turn
FreshState_WithGreeting(sid) ==
    [NoState EXCEPT !.callId = sid,
                    !.conversation = <<[role |-> "assistant",
                                        content |-> "greeting", turn |-> 0,
                                        confidence |-> 0, intent |-> "greeting",
                                        tokens |-> 0]>>]

FreshState(sid) == [NoState EXCEPT !.callId = sid]

UserTurn(u, c, n) == [role |-> "user", content |-> u, turn |-> n,
                      confidence |-> c, intent |-> "null", tokens |-> 0]

\* the caller turn is recorded but not counted
PushUserTurn_NoCount(cs, u, c) ==
    [cs EXCEPT !.conversation = Append(@, UserTurn(u, c, cs.turnCount + 1))]

\* the caller turn is recorded and the silence count starts again
PushUserTurn_ResetTimeouts(cs, u, c) ==
    [cs EXCEPT !.conversation = Append(@, UserTurn(u, c, cs.turnCount + 1)),
               !.turnCount = @ + 1, !.timeoutCount = 0]

\* conversation.push({role: 'user', ...}); turnCount++
PushUserTurn(cs, u, c) ==
    [cs EXCEPT !.conversation = Append(@, UserTurn(u, c, cs.turnCount + 1)),
               !.turnCount = @ + 1]

\* the objects generateResponse returns; turn is the caller turn answered
CacheResponse(entry) == [source |-> "faq_cache", intent |-> entry.intent,
                         data |-> NoData, tokens |-> 0, error |-> FALSE]
GptResponse(intent, data) == [source |-> "gpt", intent |-> intent,
                              data |-> data, tokens |-> 1, error |-> FALSE]
FallbackResponse == [source |-> "fallback", intent |-> "error",
                     data |-> NoData, tokens |-> 0, error |-> TRUE]
NoResponse == [source |-> "none", intent |-> "null",
               data |-> NoData, tokens |-> 0, error |-> FALSE]

\* "Update call state" and "Log assistant response" of handleSpeechResponse
ApplyResponse(cs, resp, n) ==
    [cs EXCEPT !.currentIntent = resp.intent,
               !.reservationData = IF resp.data # NoData
                                   THEN MergeDraft(@, resp.data) ELSE @,
               !.conversation = Append(@, [role |-> "assistant",
                                           content |-> resp.source,
                                           turn |-> n,
                                           confidence |-> 0,
                                           intent |-> resp.intent,
                                           tokens |-> resp.tokens])]

\* conversationHistory.slice(-10)
LastTen(history) ==
    IF Len(history) <= 10 THEN history
    ELSE SubSeq(history, Len(history) - 9, Len(history))

Message(role, content) == [role |-> role, content |-> content]

\* buildMessages: the system prompt, the last ten turns of the history it is
\* given, then the caller's message
buildMessages(systemPrompt, conversationHistory, userMessage) ==
    <<Message("system", systemPrompt)>>
        \o [i \in 1..Len(LastTen(conversationHistory)) |->
               Message(IF LastTen(conversationHistory)[i].role = "user"
                       THEN "user" ELSE "assistant",
                       LastTen(conversationHistory)[i].content)]
        \o <<Message("user", userMessage)>>

\* the models of the constructor's configuration
ModelFast == "gpt-3.5-turbo"
ModelSmart == "gpt-4-turbo-preview"

SimpleIntents == {"hours", "location", "confirm", "deny", "faq"}
ComplexIntents == {"reservation", "complaint", "cancel"}

\* the smart model for every complex intent, whatever the lengths
selectModel_NoDepthTest(intent, messageLength, historyLength) ==
    IF intent \in ComplexIntents THEN ModelSmart ELSE ModelFast

\* selectModel reads message.length and history.length only
selectModel(intent, messageLength, historyLength) ==
    IF intent \in SimpleIntents THEN ModelFast
    ELSE IF historyLength < 4 /\ messageLength < 50 THEN ModelFast
    ELSE IF intent \in ComplexIntents
            /\ (historyLength > 6 \/ messageLength > 100)
         THEN ModelSmart
    ELSE ModelFast

shouldCreateReservation(cs) ==
    /\ Truthy(cs.reservationData["date"])
    /\ Truthy(cs.reservationData["time"])
    /\ Truthy(cs.reservationData["partySize"])
    /\ \/ Truthy(cs.reservationData["customerName"])
       \/ Truthy(cs.reservationData["customerPhone"])

\* the end conditions without the safeguard against long conversations
shouldEndCall_NoCap(resp, cs) ==
    \/ /\ resp.intent = "deny"
       /\ \E i \in 1..Len(cs.conversation) :
             /\ cs.conversation[i].role = "user"
             /\ FarewellMatches(cs.conversation[i].content)
    \/ /\ cs.currentIntent = "reservation"
       /\ shouldCreateReservation(cs)

shouldEndCall(resp, cs) ==
    \/ /\ resp.intent = "deny"
       /\ \E i \in 1..Len(cs.conversation) :
             /\ cs.conversation[i].role = "user"
             /\ FarewellMatches(cs.conversation[i].content)
    \/ cs.turnCount > 20
    \/ /\ cs.currentIntent = "reservation"
       /\ shouldCreateReservation(cs)

\* normalizeForCache: lower case, trimmed, without ? ! . , and with single
\* blanks; of the modelled utterances only the one with the question mark
\* changes
normalizeForCache(u) == IF u = "mataiPatuachQ" THEN "mataiPatuach" ELSE u

\* the key of checkFAQCache / cacheResponse
FaqKey(b, u) == <<"faq", b, normalizeForCache(u)>>

\* the intents whose answers generateResponse caches
FaqIntents == {"faq", "hours", "location"}

(***************************************************************************)
(* Reservations (the Reservation collection)                               *)
(***************************************************************************)
maxCapacityPerSlot == 50

SlotReservations(rs, b, d, t) ==
    {r \in rs : /\ r.business = b /\ r.date = d /\ r.time = t
                /\ r.status \in {"pending", "confirmed"}}

RECURSIVE SumParty(_)
SumParty(rs) ==
    IF rs = {} THEN 0
    ELSE LET r == CHOOSE x \in rs : TRUE
         IN r.partySize + SumParty(rs \ {r})

\* the number of decimal digits of n, and 10 to the power k
RECURSIVE Digits(_)
Digits(n) == IF n < 10 THEN 1 ELSE 1 + Digits(n \div 10)
RECURSIVE Pow10(_)
Pow10(k) == IF k = 0 THEN 1 ELSE 10 * Pow10(k - 1)

\* total + x of JavaScript, total being a number, read as a number by the
\* comparison that follows: the sum when x is a number; when x is a string
\* the digits of total followed by those of x
JsPlus(total, x) ==
    IF x.k = "str" THEN total * Pow10(Digits(x.v)) + x.v ELSE total + x.v

\* partySize is the value as the caller of checkAvailability hands it over
checkAvailability(rs, b, d, t, partySize) ==
    LET existing == SlotReservations(rs, b, d, t)
        totalGuests == SumParty(existing)
    IN [available |-> JsPlus(totalGuests, partySize) <= maxCapacityPerSlot,
        currentBookings |-> Cardinality(existing),
        currentGuests |-> totalGuests,
        remainingCapacity |-> maxCapacityPerSlot - totalGuests]

\* the document Reservation.create stores: id is the request that made it
NewReservation(h, b, d, t, p, src, call) ==
    [id |-> h, business |-> b, date |-> d, time |-> t, partySize |-> p,
     status |-> "confirmed", source |-> src, call |-> call]

(***************************************************************************)
(* Call documents (the Call collection)                                    *)
(***************************************************************************)
NoLedgerDocs == << >>

(***************************************************************************)
(* The cost ledger of a Call document (CostBreakdownSchema) and the        *)
(* pre-save hook that fills it.  Amounts are exact multiples of small      *)
(* units: the four services in 1/1,500,000 USD, the total in               *)
(* 1/15,000,000 ILS.  With duration in seconds and the default rates:      *)
(*   twilio    = duration / 60 * 0.02               = 500 units a second   *)
(*   googleSTT = duration / 60 * 0.016              = 400 units a second   *)
(*   googleTTS = duration / 60 * 800 / 1000000 * 16 = 320 units a second   *)
(*   openAI    = in / 1000 * 0.01 + out / 1000 * 0.03 = 15 in + 45 out     *)
(*               for gpt-4-turbo-preview, and                              *)
(*               (in + out) / 1000 * 0.002 = 3 (in + out) otherwise        *)
(*   total     = (twilio + googleSTT + googleTTS + openAI) * 3.7           *)
(***************************************************************************)
\* schema defaults of a new document; metrics is a nested path and is always
\* an object, its token counts are undefined (read as || 0) until they are set
NewCosts == [twilio |-> 0, googleSTT |-> 0, googleTTS |-> 0, openAI |-> 0,
             total |-> 0]
NewLedgerDoc == [duration |-> 0, gptTokensInput |-> 0, gptTokensOutput |-> 0,
                 gptModel |-> "undefined", costs |-> NewCosts,
                 modified |-> {"duration", "metrics"}]

\* the hook adds to the ledger instead of overwriting it
PreSaveCosts_Accumulate(doc) ==
    LET c == doc.costs
        openAI == IF doc.gptModel = "gpt-4-turbo-preview"
                  THEN 15 * doc.gptTokensInput + 45 * doc.gptTokensOutput
                  ELSE 3 * (doc.gptTokensInput + doc.gptTokensOutput)
    IN [twilio |-> c.twilio + 500 * doc.duration,
        googleSTT |-> c.googleSTT + 400 * doc.duration,
        googleTTS |-> c.googleTTS + 320 * doc.duration,
        openAI |-> c.openAI + openAI,
        total |-> c.total + 37 * (1220 * doc.duration + openAI)]

\* CallSchema.pre('save'): the body of the if, field by field
PreSaveCosts(doc) ==
    LET c1 == [doc.costs EXCEPT !.twilio = 500 * doc.duration]
        c2 == [c1 EXCEPT !.googleSTT = 400 * doc.duration]
        c3 == [c2 EXCEPT !.googleTTS = 320 * doc.duration]
        c4 == [c3 EXCEPT !.openAI =
                  IF doc.gptModel = "gpt-4-turbo-preview"
                  THEN 15 * doc.gptTokensInput + 45 * doc.gptTokensOutput
                  ELSE 3 * (doc.gptTokensInput + doc.gptTokensOutput)]
    IN [c4 EXCEPT !.total =
           37 * (c4.twilio + c4.googleSTT + c4.googleTTS + c4.openAI)]

\* document.save(): the hook runs when duration or metrics is modified
SavedDoc(doc) ==
    [doc EXCEPT !.costs = IF doc.modified # {} THEN PreSaveCosts(doc) ELSE @,
                !.modified = {}]

NoCall == [exists |-> FALSE, status |-> "none", endReason |-> "unknown",
           primaryIntent |-> "unknown", turnCount |-> 0, finalized |-> FALSE,
           statsUpdated |-> FALSE, reservation |-> FALSE]

\* Call.create of handleIncomingCall
NewCall == [NoCall EXCEPT !.exists = TRUE, !.status = "initiated"]

PrimaryIntentEnum == {"reservation", "inquiry", "menu", "hours", "location",
                      "complaint", "general", "unknown"}
StatusEnum == {"initiated", "ringing", "in-progress", "completed", "failed",
               "busy", "no-answer", "canceled"}
EndReasonEnum == {"completed", "caller-hangup", "bot-hangup", "error",
                  "timeout", "transfer", "unknown"}
TerminalStatuses == {"completed", "failed", "busy", "no-answer", "canceled"}

\* what handleCallEnd copies from the call state under "Update call"
NoSnapshot == [turnCount |-> 0, primaryIntent |-> "unknown"]
Snapshot(cs) == [turnCount |-> cs.turnCount,
                 primaryIntent |-> IF cs.currentIntent = "null"
                                   THEN "general" ELSE cs.currentIntent]

\* the document handleCallEnd hands to call.save()
EndedCall(call, snap, reason) ==
    [call EXCEPT !.status = "completed", !.endReason = reason,
                 !.turnCount = snap.turnCount,
                 !.primaryIntent = snap.primaryIntent,
                 !.finalized = TRUE]

\* schema validation run by call.save()
ValidCall(call) ==
    /\ call.status \in StatusEnum
    /\ call.endReason \in EndReasonEnum
    /\ call.primaryIntent \in PrimaryIntentEnum

(***************************************************************************)
(* TextToSpeechService: the audio cache and its keys.  An options object   *)
(* is the sequence of its properties in insertion order, a property being  *)
(* <<name, value>>; all values are written as strings.                     *)
(***************************************************************************)
\* options[name], "undefined" when the property is missing
RECURSIVE OptFrom(_, _, _)
OptFrom(options, name, i) ==
    IF i > Len(options) THEN "undefined"
    ELSE IF options[i][1] = name THEN options[i][2]
    ELSE OptFrom(options, name, i + 1)

Opt(options, name) == OptFrom(options, name, 1)

\* options[name] || dflt
OptOr(options, name, dflt) ==
    IF Opt(options, name) = "undefined" THEN dflt ELSE Opt(options, name)

\* JSON.stringify of an object: the properties in insertion order, those
\* whose value is undefined left out
Stringify(options) == SelectSeq(options, LAMBDA p : p[2] # "undefined")

\* the key is made of the text alone
generateCacheKey_TextOnly(text, options) == <<text, << >> >>

\* md5(JSON.stringify({ text, options })); the digest is taken to be free of
\* collisions on the modelled inputs and is written as the string it digests
generateCacheKey(text, options) == <<text, Stringify(options)>>

\* processHebrewText: nikud is added unless options.addNikud is false
processHebrewText(text, options) ==
    <<text, IF Opt(options, "addNikud") = "false" THEN "plain" ELSE "nikud">>

selectVoice(options) ==
    LET gender == OptOr(options, "gender", "female")
        quality == OptOr(options, "quality", "wavenet")
    IN IF quality # "standard"
       THEN IF gender = "male" THEN "he-IL-Neural2-B" ELSE "he-IL-Neural2-A"
       ELSE IF gender = "male" THEN "he-IL-Standard-B" ELSE "he-IL-Standard-A"

\* what the synthesizer is asked for: the audio is a function of this request
SynthesisRequest(text, options) ==
    [ssml |-> <<processHebrewText(text, options),
                OptOr(options, "speakingRate", "1.0"),
                OptOr(options, "pitch", "0")>>,
     name |-> selectVoice(options),
     ssmlGender |-> IF Opt(options, "gender") = "male" THEN "MALE" ELSE "FEMALE",
     audioEncoding |-> OptOr(options, "encoding", "MP3"),
     speakingRate |-> OptOr(options, "speakingRate", "1.0"),
     pitch |-> OptOr(options, "pitch", "0"),
     sampleRateHertz |-> OptOr(options, "sampleRate", "8000")]

\* the texts and options objects synthesize is called with
TtsTexts == {"shalom", "toda"}
TtsOptions ==
    { <<<<"businessId", "b1">>>>,
      <<<<"businessId", "b2">>>>,
      <<<<"businessId", "b1">>, <<"gender", "male">>>>,
      <<<<"businessId", "b1">>, <<"gender", "undefined">>>> }

\* a cache entry: the key, the audio (written as the request it was made
\* from) and the business it was made for
AudioEntry(prefix, key, text, options) ==
    [prefix |-> prefix, key |-> key,
     audio |-> SynthesisRequest(text, options),
     businessId |-> Opt(options, "businessId")]

\* this.cache.get(cacheKey)
CachedAudio(cache, key) == {e \in cache : e.prefix = "" /\ e.key = key}

(***************************************************************************)
(* Events published through emitCallEvent                                  *)
(***************************************************************************)
Event(name, sid, reason) == [name |-> name, sid |-> sid, reason |-> reason]

EventsOf(sid) == SelectSeq(events, LAMBDA e : e.sid = sid)
CountEvents(name, sid) ==
    Len(SelectSeq(events, LAMBDA e : e.name = name /\ e.sid = sid))

(***************************************************************************)
(* Requests being handled.  A request is never forgotten: a finished one   *)
(* stays with pc "done" and the reply it sent.                             *)
(***************************************************************************)
Idle == [kind |-> "none", sid |-> "none", pc |-> "idle", utt |-> "none",
         conf |-> 0, messages |-> << >>,
         model |-> "none", len |-> 0, hist |-> 0,
         ext |-> NoData, resp |-> NoResponse, turnNo |-> 0, tcount |-> 0,
         reason |-> "none", withState |-> FALSE, attempted |-> FALSE,
         draft |-> EmptyDraft, snap |-> NoSnapshot, status |-> "none",
         result |-> "none"]

Free == {h \in Handlers : handlers[h].pc = "idle"}
\* requests take the slots in order; none is accepted once the process exited
NextFree(h) == up /\ h \in Free /\ \A g \in Free : h <= g

InFlight(sid) == {h \in Handlers : /\ handlers[h].sid = sid
                                   /\ handlers[h].pc \notin
                                          {"idle", "done", "aborted"}}

\* a collaborator call succeeds, or fails while the fault budget lasts
Outcomes == IF faults < MaxFaults THEN {TRUE, FALSE} ELSE {TRUE}
Count(ok) == IF ok THEN faults ELSE faults + 1

Done(hrec, result) == [hrec EXCEPT !.pc = "done", !.result = result]

Init ==
    /\ activeCalls = {}
    /\ callState = [s \in Sids |-> NoState]
    /\ calls = [s \in Sids |-> NoCall]
    /\ reservations = {}
    /\ events = << >>
    /\ faqCache = {}
    /\ handlers = [h \in Handlers |-> Idle]
    /\ faults = 0
    /\ up = TRUE
    /\ ledgerDocs = NoLedgerDocs
    /\ ttsCache = {}

(***************************************************************************)
(* Control flow shared by the steps of handleSpeechResponse                *)
(***************************************************************************)
\* handleCallEnd is entered with a business: it first synthesizes the goodbye
StartCallEnd(hrec, reason, withState) ==
    [hrec EXCEPT !.pc = "endTts", !.reason = reason, !.withState = withState]

\* "Check if conversation should end", then "Synthesize response"
AfterReservation(hrec, cs) ==
    IF shouldEndCall(hrec.resp, cs)
    THEN StartCallEnd(hrec, "completed", TRUE)
    ELSE [hrec EXCEPT !.pc = "tts"]

\* the code after generateResponse returned, on the state cs that already
\* holds the assistant turn: createReservation is entered with a snapshot of
\* the draft, or the end conditions are evaluated
RespondNext(hrec, resp, cs) ==
    IF shouldCreateReservation(cs)
    THEN [hrec EXCEPT !.resp = resp, !.pc = "check", !.attempted = TRUE,
                      !.draft = cs.reservationData]
    ELSE AfterReservation([hrec EXCEPT !.resp = resp], cs)

(***************************************************************************)
(* POST /webhook/:botId  -  handleIncomingCall                             *)
(***************************************************************************)
\* the request arrives, Business.findOne of the route and Call.create of the
\* handler complete: the unique index on twilioCallSid rejects a second
\* document for the same call.  A failure of Business.findOne is caught by
\* the route, a failure of Call.create by the handler.
IncomingCall(h, sid) ==
    /\ NextFree(h)
    /\ \E ok \in Outcomes :
         /\ faults' = Count(ok)
         /\ IF ok /\ ~calls[sid].exists
            THEN /\ calls' = [calls EXCEPT ![sid] = NewCall]
                 /\ activeCalls' = activeCalls \cup {sid}
                 /\ callState' = [callState EXCEPT ![sid] = FreshState(sid)]
                 /\ handlers' = [handlers EXCEPT ![h] =
                        [Idle EXCEPT !.kind = "incoming", !.sid = sid,
                                     !.pc = "inTts"]]
            ELSE /\ \E failed \in IF ok THEN {"catchLog"}
                                   ELSE {"routeLog", "catchLog"} :
                      handlers' = [handlers EXCEPT ![h] =
                        [Idle EXCEPT !.kind = "incoming", !.sid = sid,
                                     !.pc = failed]]
                 /\ UNCHANGED <<calls, activeCalls, callState>>
    /\ UNCHANGED <<reservations, events, faqCache>>
    /\ UNCHANGED <<up, ledgerDocs, ttsCache>>

\* the greeting was synthesized (or the synthesizer failed)
IncomingTtsDone(h) ==
    /\ handlers[h].pc = "inTts"
    /\ \E ok \in Outcomes :
         /\ faults' = Count(ok)
         /\ IF ok
            THEN /\ events' = Append(events,
                               Event("call:started", handlers[h].sid, "none"))
                 /\ handlers' = [handlers EXCEPT ![h] = Done(@, "play_gather")]
            ELSE /\ handlers' = [handlers EXCEPT ![h].pc = "catchLog"]
                 /\ UNCHANGED events
    /\ UNCHANGED <<activeCalls, callState, calls, reservations, faqCache>>
    /\ UNCHANGED <<up, ledgerDocs, ttsCache>>

\* ErrorModel.logError awaited in the catch block of the handler ("catchLog")
\* or of the route ("routeLog").  Nothing catches a failure of the latter:
\* the promise of the route handler is rejected.  A router that ignores the
\* promise leaves the rejection unhandled, and server.js exits the process on
\* an unhandled rejection; a router that forwards it to the error middleware
\* answers with a JSON error body and status 500.
ErrorReply(kind) == IF kind = "incoming" THEN "say_hangup" ELSE "apology_gather"

\* process.exit(1): the session store is lost with the process and no request
\* that was being handled is answered
ProcessExit ==
    /\ up' = FALSE
    /\ activeCalls' = {}
    /\ handlers' = [g \in Handlers |->
           IF handlers[g].pc \in {"idle", "done"} THEN handlers[g]
           ELSE [handlers[g] EXCEPT !.pc = "aborted", !.result = "exception"]]

LogErrorDone(h) ==
    /\ handlers[h].pc \in {"catchLog", "routeLog"}
    /\ \E ok \in Outcomes :
         /\ faults' = Count(ok)
         /\ IF ok
            THEN /\ handlers' = [handlers EXCEPT ![h] =
                                    Done(@, ErrorReply(@.kind))]
                 /\ UNCHANGED <<activeCalls, up>>
            ELSE IF handlers[h].pc = "catchLog"
            THEN /\ handlers' = [handlers EXCEPT ![h].pc = "routeLog"]
                 /\ UNCHANGED <<activeCalls, up>>
            ELSE \/ ProcessExit
                 \/ /\ handlers' = [handlers EXCEPT ![h] = Done(@, "error_500")]
                    /\ UNCHANGED <<activeCalls, up>>
    /\ UNCHANGED <<callState, calls, reservations, events, faqCache>>
    /\ UNCHANGED <<ledgerDocs, ttsCache>>

(***************************************************************************)
(* POST /webhook/:botId/respond  -  handleSpeechResponse, generateResponse *)
(***************************************************************************)
CacheHit(b, u) == {e \in faqCache : e.key = FaqKey(b, u)}

\* the answer is stored under the message as the caller said it
cacheResponse_RawKey(cache, u, intent, b) ==
    {e \in cache : e.key # <<"faq", b, u>>}
        \cup {[key |-> <<"faq", b, u>>, intent |-> intent]}

\* faqCache.set replaces the entry of the key
cacheResponse(cache, u, intent, b) ==
    {e \in cache : e.key # FaqKey(b, u)}
        \cup {[key |-> FaqKey(b, u), intent |-> intent]}

\* handleCallEnd(CallSid, reason) without state and business awaits nothing:
\* hangup, activeCalls.delete, call:ended
EndWithoutState(h, kind, sid, reason) ==
    /\ activeCalls' = activeCalls \ {sid}
    /\ events' = Append(events, Event("call:ended", sid, reason))
    /\ handlers' = [handlers EXCEPT ![h] =
           Done([Idle EXCEPT !.kind = kind, !.sid = sid, !.reason = reason],
                "hangup")]

\* the request arrives and Business.findOne of the route completes (a failure
\* is caught by the route): without state the call is ended; otherwise the caller
\* turn is recorded and generateResponse looks the utterance up in the FAQ
\* cache: a hit returns at once, a miss calls the model with the messages
\* built from callState.conversation, which holds the new turn already
SpeechResult(h, sid, u, c) ==
    /\ NextFree(h)
    /\ \E found \in Outcomes :
       /\ faults' = Count(found)
       /\ IF ~found
          THEN /\ handlers' = [handlers EXCEPT ![h] =
                      [Idle EXCEPT !.kind = "speech", !.sid = sid, !.utt = u,
                                   !.conf = c, !.pc = "routeLog"]]
               /\ UNCHANGED <<activeCalls, callState, events>>
          ELSE IF sid \notin activeCalls
          THEN /\ EndWithoutState(h, "speech", sid, "no-state")
               /\ UNCHANGED callState
          ELSE LET cs1 == PushUserTurn(callState[sid], u, c)
                   hrec == [Idle EXCEPT !.kind = "speech", !.sid = sid,
                                        !.utt = u, !.conf = c,
                                        !.turnNo = cs1.turnCount]
               IN IF CacheHit(BusinessId, u) # {}
                  THEN LET entry == CHOOSE e \in CacheHit(BusinessId, u) : TRUE
                           resp == CacheResponse(entry)
                           cs2 == ApplyResponse(cs1, resp, hrec.turnNo)
                       IN /\ callState' = [callState EXCEPT ![sid] = cs2]
                          /\ handlers' = [handlers EXCEPT ![h] =
                                             RespondNext(hrec, resp, cs2)]
                          /\ UNCHANGED <<activeCalls, events>>
                  ELSE /\ callState' = [callState EXCEPT ![sid] = cs1]
                       /\ handlers' = [handlers EXCEPT ![h] =
                             [hrec EXCEPT !.pc = "gpt",
                                          !.messages =
                                              buildMessages("system",
                                                  cs1.conversation, u)]]
                       /\ UNCHANGED <<activeCalls, events>>
    /\ UNCHANGED <<calls, reservations, faqCache>>
    /\ UNCHANGED <<up, ledgerDocs, ttsCache>>

\* openai.chat.completions.create returned or threw.  A reservation turn goes
\* on to extractStructuredData; any other turn returns to
\* handleSpeechResponse (extractStructuredData returns null without a call)
GptDone(h) ==
    /\ handlers[h].pc = "gpt"
    /\ LET hrec == handlers[h]
           sid == hrec.sid
           intent == detectIntent(hrec.utt)
       IN \E ok \in Outcomes :
            /\ faults' = Count(ok)
            /\ IF ~ok
               THEN /\ handlers' = [handlers EXCEPT ![h].pc = "gptLog"]
                    /\ UNCHANGED <<callState, faqCache>>
               ELSE IF intent = "reservation"
               THEN /\ handlers' = [handlers EXCEPT ![h].pc = "extract"]
                    /\ UNCHANGED <<callState, faqCache>>
               ELSE LET resp == GptResponse(intent, NoData)
                        cs2 == ApplyResponse(callState[sid], resp, hrec.turnNo)
                    IN /\ faqCache' =
                             IF intent \in FaqIntents
                             THEN cacheResponse(faqCache, hrec.utt, intent,
                                                BusinessId)
                             ELSE faqCache
                       /\ callState' = [callState EXCEPT ![sid] = cs2]
                       /\ handlers' = [handlers EXCEPT ![h] =
                                          RespondNext(hrec, resp, cs2)]
    /\ UNCHANGED <<activeCalls, calls, reservations, events>>
    /\ UNCHANGED <<up, ledgerDocs, ttsCache>>

\* the extraction call of a reservation turn returned: x is the parsed
\* object, or NoData when the call or JSON.parse threw (caught, null)
ExtractDone(h) ==
    /\ handlers[h].pc = "extract"
    /\ LET hrec == handlers[h]
           sid == hrec.sid
       IN \E x \in Extractions :
            LET resp == GptResponse("reservation", x)
                cs2 == ApplyResponse(callState[sid], resp, hrec.turnNo)
            IN /\ callState' = [callState EXCEPT ![sid] = cs2]
               /\ handlers' = [handlers EXCEPT ![h] =
                                  RespondNext([hrec EXCEPT !.ext = x], resp, cs2)]
    /\ UNCHANGED <<activeCalls, calls, reservations, events, faqCache, faults>>
    /\ UNCHANGED <<up, ledgerDocs, ttsCache>>

\* ErrorModel.logError in the catch block of generateResponse: the fallback
\* response is returned, or the failure reaches handleSpeechResponse's catch
GptLogDone(h) ==
    /\ handlers[h].pc = "gptLog"
    /\ LET hrec == handlers[h]
           sid == hrec.sid
       IN \E ok \in Outcomes :
            /\ faults' = Count(ok)
            /\ IF ok
               THEN LET cs2 == ApplyResponse(callState[sid], FallbackResponse,
                                             hrec.turnNo)
                    IN /\ callState' = [callState EXCEPT ![sid] = cs2]
                       /\ handlers' = [handlers EXCEPT ![h] =
                              RespondNext(hrec, FallbackResponse, cs2)]
               ELSE /\ handlers' = [handlers EXCEPT ![h].pc = "catchLog"]
                    /\ UNCHANGED callState
    /\ UNCHANGED <<activeCalls, calls, reservations, events, faqCache>>
    /\ UNCHANGED <<up, ledgerDocs, ttsCache>>

(***************************************************************************)
(* createReservation                                                       *)
(***************************************************************************)
\* Reservation.checkAvailability returned (or threw: caught, null)
CheckDone(h) ==
    /\ handlers[h].pc = "check"
    /\ LET hrec == handlers[h]
           d == hrec.draft
           availability == checkAvailability(reservations, BusinessId,
                               d["date"].v, d["time"].v, d["partySize"])
       IN \E ok \in Outcomes :
            /\ faults' = Count(ok)
            /\ handlers' = [handlers EXCEPT ![h] =
                   IF ok /\ availability.available
                   THEN [hrec EXCEPT !.pc = "create"]
                   ELSE AfterReservation(hrec, callState[hrec.sid])]
    /\ UNCHANGED <<activeCalls, callState, calls, reservations, events, faqCache>>
    /\ UNCHANGED <<up, ledgerDocs, ttsCache>>

\* Reservation.create returned (or threw: caught, null)
CreateDone(h) ==
    /\ handlers[h].pc = "create"
    /\ LET hrec == handlers[h]
           d == hrec.draft
       IN \E ok \in Outcomes :
            /\ faults' = Count(ok)
            /\ IF ok
               THEN /\ reservations' = reservations \cup
                         {NewReservation(h, BusinessId, d["date"].v, d["time"].v,
                                         d["partySize"].v, "ai-bot", hrec.sid)}
                    /\ handlers' = [handlers EXCEPT ![h].pc = "resUpd"]
               ELSE /\ handlers' = [handlers EXCEPT ![h] =
                           AfterReservation(hrec, callState[hrec.sid])]
                    /\ UNCHANGED reservations
    /\ UNCHANGED <<activeCalls, callState, calls, events, faqCache>>
    /\ UNCHANGED <<up, ledgerDocs, ttsCache>>

\* Call.findByIdAndUpdate and Business.findByIdAndUpdate returned, then
\* reservation:created is published; a failure of either is caught
ReservationUpdatesDone(h) ==
    /\ handlers[h].pc = "resUpd"
    /\ LET hrec == handlers[h]
           sid == hrec.sid
       IN \E ok \in Outcomes :
            /\ faults' = Count(ok)
            /\ IF ok
               THEN /\ calls' = [calls EXCEPT ![sid].reservation = TRUE]
                    /\ events' = Append(events,
                                   Event("reservation:created", sid, "none"))
               ELSE UNCHANGED <<calls, events>>
            /\ handlers' = [handlers EXCEPT ![h] =
                               AfterReservation(hrec, callState[sid])]
    /\ UNCHANGED <<activeCalls, callState, reservations, faqCache>>
    /\ UNCHANGED <<up, ledgerDocs, ttsCache>>

\* the reply was synthesized: call:turn is published and the caller is
\* asked for the next utterance
TtsDone(h) ==
    /\ handlers[h].pc = "tts"
    /\ \E ok \in Outcomes :
         /\ faults' = Count(ok)
         /\ IF ok
            THEN /\ events' = Append(events,
                               Event("call:turn", handlers[h].sid, "none"))
                 /\ handlers' = [handlers EXCEPT ![h] = Done(@, "play_gather")]
            ELSE /\ handlers' = [handlers EXCEPT ![h].pc = "catchLog"]
                 /\ UNCHANGED events
    /\ UNCHANGED <<activeCalls, callState, calls, reservations, faqCache>>
    /\ UNCHANGED <<up, ledgerDocs, ttsCache>>

(***************************************************************************)
(* handleCallEnd with a business                                           *)
(***************************************************************************)
\* "Cleanup" and "Emit event" at the end of handleCallEnd
Cleanup(h, sid, reason) ==
    /\ activeCalls' = activeCalls \ {sid}
    /\ events' = Append(events, Event("call:ended", sid, reason))
    /\ handlers' = [handlers EXCEPT ![h] = Done(@, "goodbye_hangup")]

\* the goodbye was synthesized; a failure is caught: bare hangup, no cleanup
EndTtsDone(h) ==
    /\ handlers[h].pc = "endTts"
    /\ LET hrec == handlers[h]
       IN \E ok \in Outcomes :
            /\ faults' = Count(ok)
            /\ IF ~ok
               THEN /\ handlers' = [handlers EXCEPT ![h] = Done(@, "hangup")]
                    /\ UNCHANGED <<activeCalls, events>>
               ELSE IF hrec.withState
               THEN /\ handlers' = [handlers EXCEPT ![h].pc = "endFind"]
                    /\ UNCHANGED <<activeCalls, events>>
               ELSE Cleanup(h, hrec.sid, hrec.reason)
    /\ UNCHANGED <<callState, calls, reservations, faqCache>>
    /\ UNCHANGED <<up, ledgerDocs, ttsCache>>

\* Call.findById and generateCallSummary returned (the latter catches its
\* own errors; business.aiConfig.enableAutoFAQ is off): the fields of the
\* call state are copied to the document, which is handed to call.save()
EndFindDone(h) ==
    /\ handlers[h].pc = "endFind"
    /\ LET hrec == handlers[h]
       IN \E ok \in Outcomes :
            /\ faults' = Count(ok)
            /\ IF ~ok
               THEN /\ handlers' = [handlers EXCEPT ![h] = Done(@, "hangup")]
                    /\ UNCHANGED <<activeCalls, events>>
               ELSE IF calls[hrec.sid].exists
               THEN /\ handlers' = [handlers EXCEPT ![h] =
                           [hrec EXCEPT !.pc = "endSave",
                                        !.snap = Snapshot(callState[hrec.sid])]]
                    /\ UNCHANGED <<activeCalls, events>>
               ELSE Cleanup(h, hrec.sid, hrec.reason)
    /\ UNCHANGED <<callState, calls, reservations, faqCache>>
    /\ UNCHANGED <<up, ledgerDocs, ttsCache>>

\* call.save() returned: it throws when the store fails or when the document
\* does not pass schema validation; the throw is caught: bare hangup
EndSaveDone(h) ==
    /\ handlers[h].pc = "endSave"
    /\ LET hrec == handlers[h]
           sid == hrec.sid
           doc == EndedCall(calls[sid], hrec.snap, hrec.reason)
       IN \E ok \in Outcomes :
            /\ faults' = Count(ok)
            /\ IF ok /\ ValidCall(doc)
               THEN /\ calls' = [calls EXCEPT ![sid] = doc]
                    /\ handlers' = [handlers EXCEPT ![h].pc = "endStats"]
               ELSE /\ handlers' = [handlers EXCEPT ![h] = Done(@, "hangup")]
                    /\ UNCHANGED calls
    /\ UNCHANGED <<activeCalls, callState, reservations, events, faqCache>>
    /\ UNCHANGED <<up, ledgerDocs, ttsCache>>

\* updateBusinessStats returned (it catches its own errors), then cleanup
EndStatsDone(h) ==
    /\ handlers[h].pc = "endStats"
    /\ LET hrec == handlers[h]
           sid == hrec.sid
       IN \E ok \in Outcomes :
            /\ faults' = Count(ok)
            /\ calls' = [calls EXCEPT ![sid].statsUpdated = ok]
            /\ Cleanup(h, sid, hrec.reason)
    /\ UNCHANGED <<callState, reservations, faqCache>>
    /\ UNCHANGED <<up, ledgerDocs, ttsCache>>

(***************************************************************************)
(* POST /webhook/:botId/timeout  -  handleTimeout                          *)
(***************************************************************************)
SilenceTimeout(h, sid) ==
    /\ NextFree(h)
    /\ \E found \in Outcomes :
       /\ faults' = Count(found)
       /\ IF ~found
          THEN /\ handlers' = [handlers EXCEPT ![h] =
                      Done([Idle EXCEPT !.kind = "timeout", !.sid = sid], "hangup")]
               /\ UNCHANGED <<activeCalls, callState, events>>
          ELSE IF sid \notin activeCalls
          THEN /\ EndWithoutState(h, "timeout", sid, "timeout")
               /\ UNCHANGED callState
          ELSE LET n == callState[sid].timeoutCount + 1
                   hrec == [Idle EXCEPT !.kind = "timeout", !.sid = sid,
                                        !.tcount = n]
               IN /\ callState' = [callState EXCEPT ![sid].timeoutCount = n]
                  /\ handlers' = [handlers EXCEPT ![h] =
                         IF n >= 2 THEN StartCallEnd(hrec, "timeout", TRUE)
                         ELSE [hrec EXCEPT !.pc = "promptTts"]]
                  /\ UNCHANGED <<activeCalls, events>>
    /\ UNCHANGED <<calls, reservations, faqCache>>
    /\ UNCHANGED <<up, ledgerDocs, ttsCache>>

\* the "are you still there" prompt was synthesized; a failure is caught by
\* the route: bare hangup
PromptTtsDone(h) ==
    /\ handlers[h].pc = "promptTts"
    /\ \E ok \in Outcomes :
         /\ faults' = Count(ok)
         /\ handlers' = [handlers EXCEPT ![h] =
                Done(@, IF ok THEN "play_gather" ELSE "hangup")]
    /\ UNCHANGED <<activeCalls, callState, calls, reservations, events, faqCache>>
    /\ UNCHANGED <<up, ledgerDocs, ttsCache>>

(***************************************************************************)
(* POST /webhook/:botId/end: handleCallEnd(CallSid, 'timeout', null, b)    *)
(***************************************************************************)
EndWebhook(h, sid) ==
    /\ NextFree(h)
    /\ \E found \in Outcomes :
         /\ faults' = Count(found)
         /\ handlers' = [handlers EXCEPT ![h] =
                IF found
                THEN StartCallEnd([Idle EXCEPT !.kind = "end", !.sid = sid],
                                  "timeout", FALSE)
                ELSE Done([Idle EXCEPT !.kind = "end", !.sid = sid], "hangup")]
    /\ UNCHANGED <<activeCalls, callState, calls, reservations, events,
                   faqCache>>
    /\ UNCHANGED <<up, ledgerDocs, ttsCache>>

(***************************************************************************)
(* POST /webhook/:botId/status  -  handleStatusCallback                    *)
(***************************************************************************)
CarrierStatuses == {"in-progress", "completed"}

\* the request arrives and Call.findOne returns
StatusCallback(h, sid, st) ==
    /\ NextFree(h)
    /\ LET hrec == [Idle EXCEPT !.kind = "status", !.sid = sid, !.status = st]
       IN \E ok \in Outcomes :
            /\ faults' = Count(ok)
            /\ IF ~ok
               THEN /\ handlers' = [handlers EXCEPT ![h] = Done(hrec, "200")]
                    /\ UNCHANGED activeCalls
               ELSE IF calls[sid].exists
               THEN /\ handlers' = [handlers EXCEPT ![h] =
                                       [hrec EXCEPT !.pc = "stSave"]]
                    /\ UNCHANGED activeCalls
               ELSE /\ handlers' = [handlers EXCEPT ![h] = Done(hrec, "200")]
                    /\ activeCalls' = IF st \in TerminalStatuses
                                      THEN activeCalls \ {sid} ELSE activeCalls
    /\ UNCHANGED <<callState, calls, reservations, events, faqCache>>
    /\ UNCHANGED <<up, ledgerDocs, ttsCache>>

\* call.save() returned; "Cleanup if call ended"
StatusSaveDone(h) ==
    /\ handlers[h].pc = "stSave"
    /\ LET hrec == handlers[h]
           sid == hrec.sid
       IN \E ok \in Outcomes :
            /\ faults' = Count(ok)
            /\ handlers' = [handlers EXCEPT ![h] = Done(@, "200")]
            /\ IF ok
               THEN /\ calls' = [calls EXCEPT ![sid].status = hrec.status]
                    /\ activeCalls' = IF hrec.status \in TerminalStatuses
                                      THEN activeCalls \ {sid} ELSE activeCalls
               ELSE UNCHANGED <<calls, activeCalls>>
    /\ UNCHANGED <<callState, reservations, events, faqCache>>
    /\ UNCHANGED <<up, ledgerDocs, ttsCache>>

(***************************************************************************)
(* POST /api/client/businesses/:businessId/reservations                    *)
(***************************************************************************)
\* the request arrives with partySize p in its body and
\* Reservation.checkAvailability returns
ManualReservation(h, p) ==
    /\ NextFree(h)
    /\ LET hrec == [Idle EXCEPT !.kind = "manual", !.attempted = TRUE,
                                !.draft = [XFull(p.v) EXCEPT !.partySize = p]]
           availability == checkAvailability(reservations, BusinessId, 1, 1, p)
       IN \E ok \in Outcomes :
            /\ faults' = Count(ok)
            /\ handlers' = [handlers EXCEPT ![h] =
                   IF ~ok THEN Done(hrec, "500")
                   ELSE IF availability.available
                        THEN [hrec EXCEPT !.pc = "mCreate"]
                        ELSE Done(hrec, "400")]
    /\ UNCHANGED <<activeCalls, callState, calls, reservations, events, faqCache>>
    /\ UNCHANGED <<up, ledgerDocs, ttsCache>>

\* Reservation.create returned
ManualCreateDone(h) ==
    /\ handlers[h].pc = "mCreate"
    /\ LET d == handlers[h].draft
       IN \E ok \in Outcomes :
            /\ faults' = Count(ok)
            /\ reservations' =
                 IF ok
                 THEN reservations \cup
                        {NewReservation(h, BusinessId, d["date"].v, d["time"].v,
                                        d["partySize"].v, "manual", "none")}
                 ELSE reservations
            /\ handlers' = [handlers EXCEPT ![h] =
                               Done(@, IF ok THEN "201" ELSE "500")]
    /\ UNCHANGED <<activeCalls, callState, calls, events, faqCache>>
    /\ UNCHANGED <<up, ledgerDocs, ttsCache>>

(***************************************************************************)
(* Specification                                                           *)
(***************************************************************************)
Next ==
    \/ \E h \in Handlers, sid \in Sids : IncomingCall(h, sid)
    \/ \E h \in Handlers : IncomingTtsDone(h)
    \/ \E h \in Handlers : LogErrorDone(h)
    \/ \E h \in Handlers, sid \in Sids, inp \in SpeechInputs :
           SpeechResult(h, sid, inp.text, inp.confidence)
    \/ \E h \in Handlers : GptDone(h)
    \/ \E h \in Handlers : ExtractDone(h)
    \/ \E h \in Handlers : GptLogDone(h)
    \/ \E h \in Handlers : CheckDone(h)
    \/ \E h \in Handlers : CreateDone(h)
    \/ \E h \in Handlers : ReservationUpdatesDone(h)
    \/ \E h \in Handlers : TtsDone(h)
    \/ \E h \in Handlers : EndTtsDone(h)
    \/ \E h \in Handlers : EndFindDone(h)
    \/ \E h \in Handlers : EndSaveDone(h)
    \/ \E h \in Handlers : EndStatsDone(h)
    \/ \E h \in Handlers, sid \in Sids : SilenceTimeout(h, sid)
    \/ \E h \in Handlers : PromptTtsDone(h)
    \/ \E h \in Handlers, sid \in Sids : EndWebhook(h, sid)
    \/ \E h \in Handlers, sid \in Sids, st \in CarrierStatuses :
           StatusCallback(h, sid, st)
    \/ \E h \in Handlers : StatusSaveDone(h)
    \/ \E h \in Handlers, p \in PartySizes : ManualReservation(h, Val(p))
    \/ \E h \in Handlers : ManualCreateDone(h)

Spec == Init /\ [][Next]_vars

(***************************************************************************)
(* The cost ledger on its own: two Call documents whose duration and       *)
(* metrics are set and which are saved, in any order and any number of     *)
(* times.                                                                  *)
(***************************************************************************)
LedgerDocIds == {1, 2}
Durations == {60, 90}
MetricsInputs ==
    {[gptTokensInput |-> 1000, gptTokensOutput |-> 500, gptModel |-> m] :
        m \in {"gpt-4-turbo-preview", "gpt-3.5-turbo"}}

callVars == <<activeCalls, callState, calls, reservations, events, faqCache,
              handlers, faults, up, ttsCache>>

InitCosts ==
    /\ activeCalls = {}
    /\ callState = [s \in Sids |-> NoState]
    /\ calls = [s \in Sids |-> NoCall]
    /\ reservations = {}
    /\ events = << >>
    /\ faqCache = {}
    /\ handlers = [h \in Handlers |-> Idle]
    /\ faults = 0
    /\ up = TRUE
    /\ ttsCache = {}
    /\ ledgerDocs = [i \in LedgerDocIds |-> NewLedgerDoc]

\* call.duration = d: the path is modified when the value changes
SetDuration(i, d) ==
    /\ LET doc == ledgerDocs[i]
       IN ledgerDocs' = [ledgerDocs EXCEPT ![i] =
             [doc EXCEPT !.duration = d,
                         !.modified = IF d # doc.duration
                                      THEN @ \cup {"duration"} ELSE @]]
    /\ UNCHANGED callVars

\* call.metrics gets token counts and a model name
SetMetrics(i, tin, tout, m) ==
    /\ LET doc == ledgerDocs[i]
       IN ledgerDocs' = [ledgerDocs EXCEPT ![i] =
             [doc EXCEPT !.gptTokensInput = tin, !.gptTokensOutput = tout,
                         !.gptModel = m,
                         !.modified =
                             IF <<tin, tout, m>> # <<doc.gptTokensInput,
                                                     doc.gptTokensOutput,
                                                     doc.gptModel>>
                             THEN @ \cup {"metrics"} ELSE @]]
    /\ UNCHANGED callVars

\* call.save()
SaveLedgerDoc(i) ==
    /\ ledgerDocs' = [ledgerDocs EXCEPT ![i] = SavedDoc(@)]
    /\ UNCHANGED callVars

NextCosts ==
    \/ \E i \in LedgerDocIds, d \in Durations : SetDuration(i, d)
    \/ \E i \in LedgerDocIds, x \in MetricsInputs :
          SetMetrics(i, x.gptTokensInput, x.gptTokensOutput, x.gptModel)
    \/ \E i \in LedgerDocIds : SaveLedgerDoc(i)

SpecCosts == InitCosts /\ [][NextCosts]_vars

(***************************************************************************)
(* The audio cache on its own: synthesize and generateAudioUrl called with *)
(* the modelled texts and options, and entries expiring.                   *)
(***************************************************************************)
ttsVars == <<activeCalls, callState, calls, reservations, events, faqCache,
             handlers, up, ledgerDocs>>

\* synthesize: a hit returns the cached audio; a miss asks the synthesizer
\* and stores the audio under the key (nothing is stored when it fails)
Synthesize(text, options) ==
    LET key == generateCacheKey(processHebrewText(text, options), options)
    IN /\ IF CachedAudio(ttsCache, key) # {}
          THEN UNCHANGED <<ttsCache, faults>>
          ELSE \E ok \in Outcomes :
                 /\ faults' = Count(ok)
                 /\ ttsCache' =
                      IF ok
                      THEN ttsCache \cup {AudioEntry("", key, text, options)}
                      ELSE ttsCache
       /\ UNCHANGED ttsVars

\* generateAudioUrl: synthesize, then the audio it returned is stored under
\* audio:<key of the unprocessed text>
GenerateAudioUrl(text, options) ==
    LET key == generateCacheKey(processHebrewText(text, options), options)
        urlKey == generateCacheKey(text, options)
        hit == CachedAudio(ttsCache, key)
    IN /\ IF hit # {}
          THEN /\ ttsCache' = {e \in ttsCache :
                                  ~(e.prefix = "audio:" /\ e.key = urlKey)}
                     \cup {[prefix |-> "audio:", key |-> urlKey,
                            audio |-> (CHOOSE e \in hit : TRUE).audio,
                            businessId |-> (CHOOSE e \in hit : TRUE).businessId]}
               /\ UNCHANGED faults
          ELSE \E ok \in Outcomes :
                 /\ faults' = Count(ok)
                 /\ ttsCache' =
                      IF ok
                      THEN {e \in ttsCache :
                               ~(e.prefix = "audio:" /\ e.key = urlKey)}
                           \cup {AudioEntry("", key, text, options),
                                 AudioEntry("audio:", urlKey, text, options)}
                      ELSE ttsCache
       /\ UNCHANGED ttsVars

\* the TTL of an entry runs out
ExpireAudio(e) ==
    /\ e \in ttsCache
    /\ ttsCache' = ttsCache \ {e}
    /\ UNCHANGED faults
    /\ UNCHANGED ttsVars

InitAudio ==
    /\ activeCalls = {}
    /\ callState = [s \in Sids |-> NoState]
    /\ calls = [s \in Sids |-> NoCall]
    /\ reservations = {}
    /\ events = << >>
    /\ faqCache = {}
    /\ handlers = [h \in Handlers |-> Idle]
    /\ faults = 0
    /\ up = TRUE
    /\ ledgerDocs = NoLedgerDocs
    /\ ttsCache = {}

NextAudio ==
    \/ \E text \in TtsTexts, options \in TtsOptions : Synthesize(text, options)
    \/ \E text \in TtsTexts, options \in TtsOptions :
          GenerateAudioUrl(text, options)
    \/ \E e \in ttsCache : ExpireAudio(e)

SpecAudio == InitAudio /\ [][NextAudio]_vars

(***************************************************************************)
(* The reservation book on its own: a slot that already holds reservations *)
(* (of the slot itself, of another time, of another day and business, live *)
(* and cancelled), a call whose draft has just become complete, manual         *)
(* reservations and status updates from the dashboard.                     *)
(***************************************************************************)
\* reservations the collection can hold when the requests below arrive
StoredReservations ==
    { [NewReservation(11, BusinessId, 1, 1, 20, "manual", "none")
          EXCEPT !.status = "pending"],
      [NewReservation(12, BusinessId, 1, 1, 30, "manual", "none")
          EXCEPT !.status = "cancelled"],
      NewReservation(13, BusinessId, 1, 2, 30, "manual", "none"),
      NewReservation(14, "b2", 2, 1, 30, "manual", "none") }

\* partySize as the dashboard sends it: a number, or the same digits quoted
SlotInputs == {Val(p) : p \in PartySizes} \cup {Str(20)}

\* the statuses the dashboard sets
UpdateStatuses == {"confirmed", "cancelled"}

\* the state of call CA1 after its first caller turn, a request for a table
\* whose extraction x fills the draft
DraftComplete(x) ==
    LET cs1 == PushUserTurn(FreshState("CA1"), "shulchan", 90)
    IN ApplyResponse(cs1, GptResponse("reservation", x), cs1.turnCount)

\* that turn's request, about to call checkAvailability
BookingRequest(x) ==
    RespondNext([Idle EXCEPT !.kind = "speech", !.sid = "CA1",
                             !.utt = "shulchan", !.conf = 90, !.ext = x,
                             !.turnNo = 1],
                GptResponse("reservation", x), DraftComplete(x))

InitSlots ==
    /\ activeCalls = {"CA1"}
    /\ \E p \in PartySizes :
          /\ callState = [s \in Sids |-> IF s = "CA1" THEN DraftComplete(XFull(p))
                                         ELSE NoState]
          /\ handlers = [h \in Handlers |->
                            IF h = 1 THEN BookingRequest(XFull(p)) ELSE Idle]
    /\ calls = [s \in Sids |-> IF s = "CA1" THEN NewCall ELSE NoCall]
    /\ reservations \in SUBSET StoredReservations
    /\ events = <<Event("call:started", "CA1", "none")>>
    /\ faqCache = {}
    /\ faults = 0
    /\ up = TRUE
    /\ ledgerDocs = NoLedgerDocs
    /\ ttsCache = {}

\* PUT .../reservations/:reservationId: the request arrives and
\* Reservation.findOne returns the document (404 without it, 500 on failure)
UpdateReservation(h, id, st) ==
    /\ NextFree(h)
    /\ LET hrec == [Idle EXCEPT !.kind = "update", !.turnNo = id, !.status = st]
       IN \E ok \in Outcomes :
            /\ faults' = Count(ok)
            /\ handlers' = [handlers EXCEPT ![h] =
                   IF ~ok THEN Done(hrec, "500")
                   ELSE IF \E r \in reservations :
                              r.id = id /\ r.business = BusinessId
                        THEN [hrec EXCEPT !.pc = "uSave"]
                        ELSE Done(hrec, "404")]
    /\ UNCHANGED <<activeCalls, callState, calls, reservations, events, faqCache>>
    /\ UNCHANGED <<up, ledgerDocs, ttsCache>>

\* reservation.save() returned
UpdateSaveDone(h) ==
    /\ handlers[h].pc = "uSave"
    /\ \E ok \in Outcomes :
         /\ faults' = Count(ok)
         /\ reservations' =
              IF ok
              THEN {IF r.id = handlers[h].turnNo
                    THEN [r EXCEPT !.status = handlers[h].status] ELSE r :
                    r \in reservations}
              ELSE reservations
         /\ handlers' = [handlers EXCEPT ![h] =
                            Done(@, IF ok THEN "200" ELSE "500")]
    /\ UNCHANGED <<activeCalls, callState, calls, events, faqCache>>
    /\ UNCHANGED <<up, ledgerDocs, ttsCache>>

NextSlots ==
    \/ \E h \in Handlers, p \in SlotInputs : ManualReservation(h, p)
    \/ \E h \in Handlers : ManualCreateDone(h)
    \/ \E h \in Handlers, r \in StoredReservations, st \in UpdateStatuses :
           UpdateReservation(h, r.id, st)
    \/ \E h \in Handlers : UpdateSaveDone(h)
    \/ \E h \in Handlers : CheckDone(h)
    \/ \E h \in Handlers : CreateDone(h)
    \/ \E h \in Handlers : ReservationUpdatesDone(h)
    \/ \E h \in Handlers : EndTtsDone(h)
    \/ \E h \in Handlers : EndFindDone(h)
    \/ \E h \in Handlers : EndSaveDone(h)
    \/ \E h \in Handlers : EndStatsDone(h)

SpecSlots == InitSlots /\ [][NextSlots]_vars

(***************************************************************************)
(* The classification on its own: detectIntent applied to utterances that  *)
(* match no category, one category and several categories.                 *)
(***************************************************************************)
IntentUtterances ==
    Utterances \cup {"efsharLehazmin", "levatelHazmana", "yeshTafrit",
                     "yeshBaaya", "lo"}

\* step 2 of generateResponse for the message u
Classify(h, u) ==
    /\ NextFree(h)
    /\ handlers' = [handlers EXCEPT ![h] =
           Done([Idle EXCEPT !.kind = "classify", !.utt = u,
                             !.resp = GptResponse(detectIntent(u), NoData)],
                "none")]
    /\ UNCHANGED <<activeCalls, callState, calls, reservations, events,
                   faqCache, faults>>
    /\ UNCHANGED <<up, ledgerDocs, ttsCache>>

NextIntent == \E h \in Handlers, u \in IntentUtterances : Classify(h, u)

SpecIntent == Init /\ [][NextIntent]_vars

(***************************************************************************)
(* The model selection on its own: selectModel applied to intents, message *)
(* lengths and history lengths on both sides of its thresholds.            *)
(***************************************************************************)
ModelIntents == {"reservation", "complaint", "cancel", "hours", "menu",
                 "general"}
MessageLengths == {49, 100, 101}
HistoryLengths == {3, 6, 7}

\* step 3 of generateResponse
SelectModel(h, intent, messageLength, historyLength) ==
    /\ NextFree(h)
    /\ handlers' = [handlers EXCEPT ![h] =
           Done([Idle EXCEPT !.kind = "select",
                             !.resp = GptResponse(intent, NoData),
                             !.len = messageLength, !.hist = historyLength,
                             !.model = selectModel(intent, messageLength,
                                                   historyLength)],
                "none")]
    /\ UNCHANGED <<activeCalls, callState, calls, reservations, events,
                   faqCache, faults>>
    /\ UNCHANGED <<up, ledgerDocs, ttsCache>>

NextModel ==
    \E h \in Handlers, intent \in ModelIntents, n \in MessageLengths,
       k \in HistoryLengths : SelectModel(h, intent, n, k)

SpecModel == Init /\ [][NextModel]_vars

\* the collaborator call request h waits on returns (or fails)
Completion(h) ==
    \/ IncomingTtsDone(h) \/ LogErrorDone(h) \/ GptDone(h) \/ ExtractDone(h)
    \/ GptLogDone(h) \/ CheckDone(h) \/ CreateDone(h)
    \/ ReservationUpdatesDone(h) \/ TtsDone(h) \/ EndTtsDone(h)
    \/ EndFindDone(h) \/ EndSaveDone(h) \/ EndStatsDone(h)
    \/ PromptTtsDone(h) \/ StatusSaveDone(h) \/ ManualCreateDone(h)

\* Every awaited collaborator call eventually returns or throws, and the
\* event loop then runs the continuation.  The carrier is not obliged to
\* send any event, and the program starts no timer of its own:
\* maxCallDuration and conversationTimeout are set by the constructor and
\* read nowhere.
SpecFair == Init /\ [][Next]_vars /\ \A h \in Handlers : WF_vars(Completion(h))

TypeOK ==
    /\ activeCalls \subseteq Sids
    /\ faults \in 0..MaxFaults
    /\ \A h \in Handlers : handlers[h].pc = "idle" <=> handlers[h].kind = "none"

(***************************************************************************)
(* A call in progress.  Established(u, k) is the state after IncomingCall  *)
(* for CA1 and k caller turns with utterance u, each answered by the model *)
(* before the next one arrived; the utterances used do not end the call.   *)
(* The first request slot holds the finished IncomingCall request; the     *)
(* requests of the k answered turns are not kept.                          *)
(***************************************************************************)
RECURSIVE Talk(_, _, _)
Talk(cs, u, k) ==
    IF k = 0 THEN cs
    ELSE LET cs1 == PushUserTurn(Talk(cs, u, k - 1), u, 90)
         IN ApplyResponse(cs1, GptResponse(detectIntent(u), NoData), cs1.turnCount)

Established(u, k) ==
    /\ activeCalls = {"CA1"}
    /\ callState = [s \in Sids |-> IF s = "CA1"
                                   THEN Talk(FreshState(s), u, k) ELSE NoState]
    /\ calls = [s \in Sids |-> IF s = "CA1" THEN NewCall ELSE NoCall]
    /\ reservations = {}
    /\ events = <<Event("call:started", "CA1", "none")>> \o
                [i \in 1..k |-> Event("call:turn", "CA1", "none")]
    /\ faqCache = {}
    /\ handlers = [h \in Handlers |->
                      IF h = 1
                      THEN Done([Idle EXCEPT !.kind = "incoming", !.sid = "CA1"],
                                "play_gather")
                      ELSE Idle]
    /\ faults = 0
    /\ up = TRUE
    /\ ledgerDocs = NoLedgerDocs
    /\ ttsCache = {}

\* both calls in progress, each after one answered turn; the first request
\* slot holds the IncomingCall request that finished last
BothEstablished ==
    /\ activeCalls = Sids
    /\ callState = [s \in Sids |-> Talk(FreshState(s), "shalom", 1)]
    /\ calls = [s \in Sids |-> NewCall]
    /\ reservations = {}
    /\ events = <<Event("call:started", "CA1", "none"),
                  Event("call:turn", "CA1", "none"),
                  Event("call:started", "CA2", "none"),
                  Event("call:turn", "CA2", "none")>>
    /\ faqCache = {}
    /\ handlers = [h \in Handlers |->
                      IF h = 1
                      THEN Done([Idle EXCEPT !.kind = "incoming", !.sid = "CA2"],
                                "play_gather")
                      ELSE Idle]
    /\ faults = 0
    /\ up = TRUE
    /\ ledgerDocs = NoLedgerDocs
    /\ ttsCache = {}

InitInCall ==
    \/ \E u \in {"shalom", "todaZehu"}, k \in {1, StartTurns} : Established(u, k)
    \/ BothEstablished

SpecInCall == InitInCall /\ [][Next]_vars

\* a call in progress whose caller was silent once: after one answered turn
\* a SilenceTimeout was answered with the re-prompt; the first request slot
\* holds that finished request
InitReprompted ==
    /\ activeCalls = {"CA1"}
    /\ callState = [s \in Sids |->
                       IF s = "CA1"
                       THEN [Talk(FreshState(s), "shalom", 1)
                                EXCEPT !.timeoutCount = 1]
                       ELSE NoState]
    /\ calls = [s \in Sids |-> IF s = "CA1" THEN NewCall ELSE NoCall]
    /\ reservations = {}
    /\ events = <<Event("call:started", "CA1", "none"),
                  Event("call:turn", "CA1", "none")>>
    /\ faqCache = {}
    /\ handlers = [h \in Handlers |->
                      IF h = 1
                      THEN Done([Idle EXCEPT !.kind = "timeout", !.sid = "CA1",
                                             !.tcount = 1],
                                "play_gather")
                      ELSE Idle]
    /\ faults = 0
    /\ up = TRUE
    /\ ledgerDocs = NoLedgerDocs
    /\ ttsCache = {}

SpecReprompted == InitReprompted /\ [][Next]_vars

(***************************************************************************)
(* Properties                                                              *)
(***************************************************************************)
Slots == {<<1, 1>>}
Occupancy(slot) ==
    SumParty(SlotReservations(reservations, BusinessId, slot[1], slot[2]))

\* C1: under concurrent booking attempts through the call path or the
\* manual route, the party sizes of the pending and confirmed reservations
\* of a slot never add up to more than the slot capacity.
C1_OccupancyWithinCapacity ==
    \A slot \in Slots : Occupancy(slot) <= maxCapacityPerSlot

\* the requests that made a booking attempt, and whether the attempt is over
Attempts == {h \in Handlers : handlers[h].attempted}
AttemptOver(h) == handlers[h].pc \notin {"check", "create", "mCreate"}

\* C2: capacity 50, empty slot, two concurrent attempts of party size 30 and
\* no failing collaborator: when both attempts are over exactly one
\* reservation is committed.
C2_ExactlyOneOfTwoWins ==
    ( /\ faults = 0
      /\ Cardinality(Attempts) = 2
      /\ \A h \in Attempts : /\ handlers[h].draft["partySize"] = Val(30)
                             /\ AttemptOver(h) )
    => Cardinality(reservations) = 1

CountUserTurns(conv) == Len(SelectSeq(conv, LAMBDA t : t.role = "user"))

\* C3: after every step turnCount of every session equals the number of
\* caller turns recorded in its conversation, and no step decreases it.
C3_TurnCountCountsCallerTurns ==
    [][\A sid \in Sids :
          /\ callState'[sid].turnCount
                = CountUserTurns(callState'[sid].conversation)
          /\ callState'[sid].turnCount >= callState[sid].turnCount]_vars

\* a session with two recorded caller turns, the first one answered
C3_Witness ==
    \E sid \in activeCalls :
        /\ callState[sid].turnCount = 2
        /\ Len(callState[sid].conversation) >= 3

\* the session was finalized by handleCallEnd and removed from the store
Ended(sid) == sid \notin activeCalls /\ calls[sid].finalized

ReservationsOf(sid) == {r \in reservations : r.call = sid}

\* C4: once a session has ended, no collaborator call has failed and no
\* earlier request of the call is still being handled, a step (which can only be a new request or a request of
\* another call) creates no session, records no turn, commits no
\* reservation and publishes no event for that call id.
C4_EndedSessionDiscardsEvents ==
    [][\A sid \in Sids :
          (Ended(sid) /\ InFlight(sid) = {} /\ faults = 0)
          => /\ sid \notin activeCalls'
             /\ callState'[sid] = callState[sid]
             /\ ReservationsOf(sid)' = ReservationsOf(sid)
             /\ EventsOf(sid)' = EventsOf(sid)]_vars

\* C5: at most one request of a session enters createReservation.
C5_AtMostOneBookingAttempt ==
    \A sid \in Sids :
        Cardinality({h \in Attempts : handlers[h].sid = sid}) <= 1

\* C6: in every conversation the caller turns appear in arrival order and
\* every agent reply stands directly after the caller turn it answers.
C6_TurnsInArrivalOrder ==
    \A sid \in Sids :
        LET conv == callState[sid].conversation
        IN \A i \in 1..Len(conv) :
              /\ conv[i].role = "assistant"
                 => /\ i > 1
                    /\ conv[i - 1].role = "user"
                    /\ conv[i - 1].turn = conv[i].turn
              /\ \A j \in 1..Len(conv) :
                    (i < j /\ conv[i].role = "user" /\ conv[j].role = "user")
                    => conv[i].turn < conv[j].turn

\* the session existed and is no longer in the store
Removed(sid) == callState[sid].callId # "none" /\ sid \notin activeCalls

\* C7: after the removal of a session no request of it that was waiting on
\* a collaborator records a turn, commits a reservation or publishes
\* call:turn.
C7_LateResultDiscarded ==
    [][\A sid \in Sids :
          Removed(sid)
          => /\ callState'[sid].conversation = callState[sid].conversation
             /\ ReservationsOf(sid)' = ReservationsOf(sid)
             /\ CountEvents("call:turn", sid)' = CountEvents("call:turn", sid)]_vars

\* C8: a step removes a session from the store only when the Call document
\* was finalized, the statistics were updated and call:ended is published.
C8_RemovedOnlyAfterFinalization ==
    [][\A sid \in Sids :
          (sid \in activeCalls /\ sid \notin activeCalls')
          => /\ calls'[sid].finalized
             /\ calls'[sid].statsUpdated
             /\ CountEvents("call:ended", sid)' > 0]_vars

HangupReplies == {"goodbye_hangup", "hangup"}

\* C9: with no failing collaborator, the first SilenceTimeout of a session is
\* answered with the re-prompt and the second with a hangup, and call:ended
\* with reason timeout is published once the second one is answered.
C9_SecondTimeoutEndsCall ==
    \A h \in Handlers :
        ( /\ faults = 0
          /\ handlers[h].kind = "timeout"
          /\ handlers[h].pc = "done"
          /\ handlers[h].tcount >= 1 )
        => IF handlers[h].tcount = 1
           THEN handlers[h].result = "play_gather"
           ELSE /\ handlers[h].result \in HangupReplies
                /\ \E i \in 1..Len(events) :
                      events[i] = Event("call:ended", handlers[h].sid, "timeout")

\* the caller turns whose pipeline returned a response and that were answered
Answered(h) ==
    /\ handlers[h].kind = "speech"
    /\ handlers[h].pc = "done"
    /\ handlers[h].resp.source # "none"

ResponderFailed(h) ==
    /\ handlers[h].kind = "speech"
    /\ handlers[h].resp.error

\* the turn before the one of request h, in the same session, failed as well
SecondFailureInARow(h) ==
    \E g \in Handlers \ {h} :
        /\ ResponderFailed(g)
        /\ handlers[g].sid = handlers[h].sid
        /\ handlers[g].turnNo + 1 = handlers[h].turnNo

ApologyReplies == {"play_gather", "apology_gather"}

\* C11: a caller turn on which the Responder failed is answered with the
\* apology and a new gather, unless the turn before it failed as well: then
\* it is answered with a hangup (the session is forced to end).
C11_SecondResponderFailureEndsCall ==
    \A h \in Handlers :
        (ResponderFailed(h) /\ handlers[h].pc = "done")
        => IF SecondFailureInARow(h)
           THEN handlers[h].result \in HangupReplies
           ELSE handlers[h].result \in ApologyReplies

\* C12: a SpeechResult whose confidence is below the floor (0.50 here; the
\* carrier sends 0.30 and 0.90) never waits on the Responder, and no agent
\* turn with tokens is recorded for it.
C12_LowConfidenceSkipsResponder ==
    \A h \in Handlers :
        (handlers[h].kind = "speech" /\ handlers[h].conf < 50)
        => /\ handlers[h].pc \notin {"gpt", "extract"}
           /\ handlers[h].resp.tokens = 0

\* the Responder answered the utterance of request g and the answer is one
\* that generateResponse caches
AnsweredFaq(g) ==
    /\ handlers[g].kind = "speech"
    /\ handlers[g].resp.source = "gpt"
    /\ handlers[g].resp.intent \in FaqIntents

\* request h arrives in this step as a SpeechResult of a session in the store
ArrivesInSession(h) ==
    /\ handlers[h].pc = "idle"
    /\ handlers'[h].kind = "speech"
    /\ handlers'[h].turnNo > 0

C14_SessionEventuallyRemoved ==
    \A sid \in Sids : (sid \in activeCalls) ~> (sid \notin activeCalls)

\* request h has left handleCallEnd after it handed a Call document that
\* passes schema validation to call.save()
FinalizationOver(h) ==
    /\ handlers[h].pc = "done"
    /\ handlers[h].snap # NoSnapshot
    /\ handlers[h].snap.primaryIntent \in PrimaryIntentEnum

\* C15: when finalization is over, whether the save succeeded at once, on
\* its retry or not at all, the session is no longer in the store and the
\* Call record is finalized or marked abandoned.
C15_FailedSaveStillRemovesSession ==
    \A h \in Handlers :
        FinalizationOver(h)
        => /\ handlers[h].sid \notin activeCalls
           /\ \/ calls[handlers[h].sid].finalized
              \/ calls[handlers[h].sid].status = "abandoned"

\* session t and the requests of session t are the same after the step
Untouched(t) ==
    /\ (t \in activeCalls) = (t \in activeCalls')
    /\ callState'[t] = callState[t]
    /\ \A g \in Handlers : handlers[g].sid = t => handlers'[g] = handlers[g]

\* C16: a step in which a collaborator call fails belongs to one request;
\* every session other than the one of that request, and every request of
\* such a session, is left as it was.
C16_FaultStaysInItsSession ==
    [][faults' > faults
       => \E h \in Handlers :
             /\ handlers'[h] # handlers[h]
             /\ \A t \in Sids \ {handlers'[h].sid} : Untouched(t)]_vars

\* the kinds of request the carrier sends to the call webhooks, and the
\* replies that are directive lists with a spoken reply or a hangup
CallEvents == {"incoming", "speech", "timeout", "end"}
DirectiveReplies == {"play_gather", "apology_gather", "say_hangup",
                     "goodbye_hangup", "hangup"}

\* C17: whatever collaborator calls fail, a request of the call webhooks that
\* is over was answered with a directive list holding a spoken reply or a
\* hangup.
C17_EveryEventAnsweredWithDirectives ==
    \A h \in Handlers :
        ( /\ handlers[h].kind \in CallEvents
          /\ handlers[h].pc \in {"done", "aborted"} )
        => handlers[h].result \in DirectiveReplies

\* the inputs of the ledger of a document
LedgerInputs(doc) ==
    <<doc.duration, doc.gptTokensInput, doc.gptTokensOutput, doc.gptModel>>

\* C18: two saved documents with the same duration, token counts and model
\* have the same ledger, whatever was set and saved before on either of
\* them, and a save of a document on which neither duration nor metrics
\* was modified leaves its ledger as it was.
C18_LedgerIsFunctionOfInputs ==
    [][/\ \A i, j \in LedgerDocIds :
             ( /\ ledgerDocs'[i].modified = {}
               /\ ledgerDocs'[j].modified = {}
               /\ LedgerInputs(ledgerDocs'[i]) = LedgerInputs(ledgerDocs'[j]) )
             => ledgerDocs'[i].costs = ledgerDocs'[j].costs
       /\ \A i \in LedgerDocIds :
             ledgerDocs[i].modified = {}
             => ledgerDocs'[i].costs = ledgerDocs[i].costs]_vars

\* both documents are saved, with the same inputs (90 seconds, 1000 and 500
\* tokens of gpt-4-turbo-preview), and hold the ledger of these inputs
C18_Witness ==
    /\ ledgerDocs # NoLedgerDocs
    /\ \A i \in LedgerDocIds : ledgerDocs[i].modified = {}
    /\ LedgerInputs(ledgerDocs[1]) = <<90, 1000, 500, "gpt-4-turbo-preview">>
    /\ LedgerInputs(ledgerDocs[2]) = LedgerInputs(ledgerDocs[1])
    /\ ledgerDocs[1].costs.total = 37 * (1220 * 90 + 37500)

\* C19: every entry of the audio cache that a lookup for a text and options
\* finds (the entry's key is the key of that text and options) holds the
\* audio of exactly that business, text and voice parameters; so inputs
\* with different voice parameters never share a key.
C19_CacheHitHasSameVoiceParameters ==
    \A e \in ttsCache, text \in TtsTexts, options \in TtsOptions :
        ( /\ e.prefix = ""
          /\ e.key = generateCacheKey(processHebrewText(text, options), options) )
        => /\ e.audio = SynthesisRequest(text, options)
           /\ e.businessId = Opt(options, "businessId")

\* the cache holds the same text for the same business in a female and in a
\* male voice, under two keys
C19_Witness ==
    \E e1, e2 \in ttsCache :
        /\ e1.prefix = "" /\ e2.prefix = ""
        /\ e1.businessId = e2.businessId
        /\ e1.audio.ssml[1] = e2.audio.ssml[1]
        /\ e1.audio.ssmlGender = "FEMALE"
        /\ e2.audio.ssmlGender = "MALE"
        /\ e1.key # e2.key

\* C20: when a turn's reply is applied to a session, a draft field that was
\* filled stays filled, a reply whose intent is not reservation leaves the
\* draft as it was, and so does an extraction that failed.
C20_MergeKeepsFilledFields ==
    [][ /\ \A sid \in Sids :
            LET d == callState[sid].reservationData
                d2 == callState'[sid].reservationData
                conv == callState[sid].conversation
                conv2 == callState'[sid].conversation
            IN ( /\ callState[sid].callId # "none"
                 /\ Len(conv2) = Len(conv) + 1
                 /\ conv2[Len(conv2)].role = "assistant" )
               => /\ \A f \in DraftFields : Truthy(d[f]) => Truthy(d2[f])
                  /\ conv2[Len(conv2)].intent # "reservation" => d2 = d
        /\ \A h \in Handlers :
            ( /\ handlers[h].pc = "extract"
              /\ handlers'[h].pc \notin {"extract", "aborted"}
              /\ handlers'[h].ext = NoData )
            => callState'[handlers[h].sid].reservationData
                 = callState[handlers[h].sid].reservationData
      ]_vars

\* request h went through handleCallEnd with the session state: the state
\* was copied to the Call document and the request is over
EndedWithState(h) ==
    /\ handlers[h].pc = "done"
    /\ handlers[h].withState
    /\ handlers[h].snap # NoSnapshot

\* C21: when no collaborator call fails, a request that ended its session
\* through handleCallEnd with the session state has finalized the Call
\* record, published call:ended and removed the session, whatever the
\* session's current intent was.
C21_FinalizationSucceedsForEveryIntent ==
    \A h \in Handlers :
        (faults = 0 /\ EndedWithState(h))
        => /\ calls[handlers[h].sid].finalized
           /\ CountEvents("call:ended", handlers[h].sid) > 0
           /\ handlers[h].sid \notin activeCalls

\* the pipeline of the caller turn of request h returned a response that is
\* not the fallback
PipelineSucceeded(h) ==
    /\ handlers[h].kind = "speech"
    /\ handlers[h].resp.source # "none"
    /\ ~handlers[h].resp.error

\* C22: with no failing collaborator, a caller turn whose utterance is an
\* explicit farewell is never answered with another gather once its pipeline
\* succeeded (the session ends on that turn), and a turn below the turn cap
\* that ended its session on a deny reply had a farewell as its utterance.
C22_FarewellUtteranceEndsSession ==
    \A h \in Handlers :
        (faults = 0 /\ PipelineSucceeded(h))
        => /\ FarewellMatches(handlers[h].utt)
              => /\ handlers[h].pc # "tts"
                 /\ handlers[h].pc = "done"
                    => handlers[h].result \in HangupReplies
           /\ ( /\ handlers[h].reason = "completed"
                /\ handlers[h].resp.intent = "deny"
                /\ handlers[h].turnNo <= 20 )
              => FarewellMatches(handlers[h].utt)

\* C23: a step never takes the persisted status of a call from a terminal
\* status (completed, failed, busy, no-answer, canceled) to a status that is
\* not terminal.
C23_TerminalStatusIsFinal ==
    [][\A sid \in Sids :
          calls[sid].status \in TerminalStatuses
          => calls'[sid].status \in TerminalStatuses]_vars

\* the occupancy of a slot: the party sizes of the pending and confirmed
\* reservations of the business on the day at the time
SlotOccupancy(b, d, t) ==
    SumParty({r \in reservations :
                 /\ r.business = b /\ r.date = d /\ r.time = t
                 /\ r.status \in {"pending", "confirmed"}})

\* request h asks for availability in this step and no collaborator fails
AsksAvailability(h) ==
    /\ faults' = faults
    /\ \/ handlers[h].pc = "check" /\ handlers'[h].pc # "check"
       \/ handlers[h].pc = "idle" /\ handlers'[h].kind = "manual"

\* C24: a request that asks for availability goes on to create its
\* reservation exactly when occupancy + partySize <= capacity; the answer of
\* checkAvailability carries the occupancy and capacity - occupancy; and a
\* request that was told the slot is not available commits no reservation.
C24_AvailableIffFits ==
    [][\A h \in Handlers :
          AsksAvailability(h)
          => LET p == handlers'[h].draft["partySize"]
                 d == handlers'[h].draft["date"].v
                 t == handlers'[h].draft["time"].v
                 occupancy == SlotOccupancy(BusinessId, d, t)
                 fits == occupancy + p.v <= maxCapacityPerSlot
                 answer == checkAvailability(reservations, BusinessId, d, t, p)
             IN /\ answer.available <=> fits
                /\ answer.currentGuests = occupancy
                /\ answer.remainingCapacity = maxCapacityPerSlot - occupancy
                /\ handlers'[h].pc \in {"create", "mCreate"} <=> fits
                /\ reservations' = reservations]_vars

\* the turns of the session of request h that were recorded before the
\* caller turn of request h
TurnsBefore(h) ==
    LET conv == callState[handlers[h].sid].conversation
        i == CHOOSE j \in 1..Len(conv) :
                 conv[j].role = "user" /\ conv[j].turn = handlers[h].turnNo
    IN SubSeq(conv, 1, i - 1)

\* C25: the messages handed to the Responder for a caller turn are the
\* system prompt, the last ten turns recorded before that turn in their
\* order, and the new utterance once.
C25_PromptHoldsUtteranceOnce ==
    \A h \in Handlers :
        handlers[h].messages # << >>
        => handlers[h].messages
             = <<Message("system", "system")>>
                 \o [i \in 1..Len(LastTen(TurnsBefore(h))) |->
                        Message(LastTen(TurnsBefore(h))[i].role,
                                LastTen(TurnsBefore(h))[i].content)]
                 \o <<Message("user", handlers[h].utt)>>

\* the categories in the order of their declaration
DeclaredOrder == <<"reservation", "hours", "menu", "location", "cancel",
                   "confirm", "deny", "complaint", "faq">>

\* the positions, in the declared order, of the categories that have a
\* pattern matching u
MatchingPositions(u) ==
    {i \in 1..Len(DeclaredOrder) :
        \E c \in 1..Len(intentPatterns) :
            /\ intentPatterns[c].intent = DeclaredOrder[i]
            /\ intentPatterns[c].patterns \cap PatternsIn(u) # {}}

\* C26: the intent detected for an utterance is general when no category
\* has a matching pattern, and otherwise the matching category that comes
\* first in the declared order.
C26_FirstDeclaredMatchWins ==
    \A h \in Handlers :
        handlers[h].kind = "classify"
        => LET u == handlers[h].utt
               intent == handlers[h].resp.intent
           IN IF MatchingPositions(u) = {}
              THEN intent = "general"
              ELSE \E i \in MatchingPositions(u) :
                      /\ intent = DeclaredOrder[i]
                      /\ \A j \in MatchingPositions(u) : i <= j

\* utterances matching two categories, one matching none and one matching a
\* single category were classified
C26_Witness ==
    /\ \E h \in Handlers : /\ handlers[h].kind = "classify"
                           /\ handlers[h].utt = "levatelHazmana"
                           /\ handlers[h].resp.intent = "reservation"
    /\ \E h \in Handlers : /\ handlers[h].kind = "classify"
                           /\ handlers[h].utt = "todaZehu"
                           /\ handlers[h].resp.intent = "confirm"
    /\ \E h \in Handlers : /\ handlers[h].kind = "classify"
                           /\ handlers[h].utt = "shalom"
                           /\ handlers[h].resp.intent = "general"

\* C27: the model selected is the capable one exactly when the intent is
\* reservation, complaint or cancel and the history is longer than 6 or the
\* utterance longer than 100; two selections with the same intent and
\* lengths give the same model.
C27_CapableModelOnlyForDeepComplexTurns ==
    \A h \in Handlers :
        handlers[h].kind = "select"
        => /\ handlers[h].model \in {ModelFast, ModelSmart}
           /\ handlers[h].model = ModelSmart
              <=> /\ handlers[h].resp.intent
                        \in {"reservation", "complaint", "cancel"}
                  /\ \/ handlers[h].hist > 6
                     \/ handlers[h].len > 100
           /\ \A g \in Handlers :
                 ( /\ handlers[g].kind = "select"
                   /\ handlers[g].resp.intent = handlers[h].resp.intent
                   /\ handlers[g].len = handlers[h].len
                   /\ handlers[g].hist = handlers[h].hist )
                 => handlers[g].model = handlers[h].model

\* a long reservation utterance at the start of a call got the capable
\* model, a complaint in a deep call as well, and a short reservation
\* utterance with a history of 6 the cheap one
C27_Witness ==
    /\ \E h \in Handlers : /\ handlers[h].kind = "select"
                           /\ handlers[h].resp.intent = "reservation"
                           /\ handlers[h].len = 101 /\ handlers[h].hist = 3
                           /\ handlers[h].model = ModelSmart
    /\ \E h \in Handlers : /\ handlers[h].kind = "select"
                           /\ handlers[h].resp.intent = "complaint"
                           /\ handlers[h].len = 49 /\ handlers[h].hist = 7
                           /\ handlers[h].model = ModelSmart
    /\ \E h \in Handlers : /\ handlers[h].kind = "select"
                           /\ handlers[h].resp.intent = "reservation"
                           /\ handlers[h].len = 100 /\ handlers[h].hist = 6
                           /\ handlers[h].model = ModelFast

\* request h is the handleIncomingCall run that wrote the Call record and the
\* session entry of its call id (no other incoming request of that call id
\* exists), and it is over without having answered with the greeting
FailedAfterWriting(h) ==
    /\ handlers[h].kind = "incoming"
    /\ handlers[h].pc \in {"done", "aborted"}
    /\ handlers[h].result # "play_gather"
    /\ calls[handlers[h].sid].exists
    /\ \A g \in Handlers \ {h} :
          ~(handlers[g].kind = "incoming" /\ handlers[g].sid = handlers[h].sid)

\* C28: a handleIncomingCall run that failed after it wrote the Call record
\* and the session entry has answered with the error reply and hangup, and
\* the session store holds no entry for its call id.
C28_FailedIncomingLeavesNoSession ==
    \A h \in Handlers :
        FailedAfterWriting(h)
        => /\ handlers[h].result = "say_hangup"
           /\ handlers[h].sid \notin activeCalls

\* request h arrives in this step as a SilenceTimeout of a session in the store
TimeoutArrives(h) ==
    /\ handlers[h].pc = "idle"
    /\ handlers'[h].kind = "timeout"
    /\ handlers'[h].tcount > 0

\* C29: no step decreases the timeoutCount of a session, whatever is
\* handled in between; a SilenceTimeout that finds a session whose
\* timeoutCount is already 1 or more enters handleCallEnd with reason timeout
\* in the step it arrives, and is answered with a hangup, never with the
\* re-prompt.
C29_TimeoutCountNeverReset ==
    [][/\ \A sid \in Sids :
             callState'[sid].timeoutCount >= callState[sid].timeoutCount
       /\ \A h \in Handlers :
             TimeoutArrives(h)
             => LET sid == handlers'[h].sid
                IN /\ handlers'[h].tcount = callState[sid].timeoutCount + 1
                   /\ callState[sid].timeoutCount >= 1
                      => /\ handlers'[h].pc = "endTts"
                         /\ handlers'[h].reason = "timeout"
       /\ \A h \in Handlers :
             (handlers'[h].kind = "timeout" /\ handlers'[h].tcount >= 2)
             => /\ handlers'[h].pc # "promptTts"
                /\ handlers'[h].pc = "done"
                   => handlers'[h].result \in HangupReplies]_vars

\* after the first timeout a caller turn was recorded and answered, and the
\* timeout that came after it was the second and was answered with a hangup
C29_Witness ==
    \E g, h \in Handlers :
        /\ g < h
        /\ handlers[g].kind = "speech"
        /\ handlers[g].sid = handlers[h].sid
        /\ handlers[g].pc = "done"
        /\ handlers[g].result = "play_gather"
        /\ handlers[h].kind = "timeout"
        /\ handlers[h].tcount = 2
        /\ handlers[h].pc = "done"
        /\ handlers[h].result \in HangupReplies

\* the number of turns of the given role in a conversation
TurnsOf(conv, r) == Cardinality({i \in 1..Len(conv) : conv[i].role = r})

\* C30: in every reachable state, every session's conversation holds at
\* most as many agent turns as caller turns, and is at most twice as long as
\* its turnCount.
C30_AgentTurnsAtMostCallerTurns ==
    \A sid \in Sids :
        /\ TurnsOf(callState[sid].conversation, "assistant")
              <= TurnsOf(callState[sid].conversation, "user")
        /\ Len(callState[sid].conversation) <= 2 * callState[sid].turnCount

\* two speech requests of one session interleaved: both caller turns were
\* recorded before either reply, and both replies are recorded
C30_Witness ==
    \E sid \in Sids :
        LET conv == callState[sid].conversation
        IN /\ Len(conv) = 4
           /\ conv[1].role = "user"
           /\ conv[2].role = "user"
           /\ conv[3].role = "assistant"
           /\ conv[4].role = "assistant"
           /\ callState[sid].turnCount = 2

====
